---- MODULE Spec2Model ----
(***************************************************************************)
(* Model of src/serializers/graph_extensions.c: the deserialization API    *)
(* of the graph (Serializer_Graph_SetNode, Serializer_Graph_SetNodeLabels, *)
(* Serializer_Graph_SetEdge, Serializer_Graph_MarkNodeDeleted,             *)
(* Serializer_Graph_MarkEdgeDeleted and the two deleted-list getters).     *)
(*                                                                         *)
(* A GraphBLAS matrix is a sparse matrix: a function whose domain is the   *)
(* set of positions <<row, col>> that hold an entry.  A uint64 relation    *)
(* cell is a word split in its top bit (msb) and its 63 low bits (low).    *)
(* The arrays that hold parallel edges live in a heap of addresses.        *)
(***************************************************************************)
EXTENDS Integers, Sequences, FiniteSets, TLC

\* ---------------------------------------------------------------- bounds
\* number of API calls of one run
MaxCalls == 3
\* number of API calls of one run of the node phase alone
MaxNodeCalls == 4
\* number of heap addresses available to the multi-edge arrays
MaxHeap == 2
\* number of set_edge calls of one run in which matrix primitives may fail
MaxFaultCalls == 2

\* the id spaces the caller draws its arguments from
NodeIds     == {0, 1}
EdgeIds     == {0, 1, 2}
Relations   == {0, 1}
HeapAddrs   == 1..MaxHeap
\* the label ids: every id below the label count
Labels      == {0, 1}
\* Graph_LabelTypeCount(g) and Graph_RequiredMatrixDim(g)
Graph_LabelTypeCount    == Cardinality(Labels)
Graph_RequiredMatrixDim == Cardinality(NodeIds)

\* the label arrays (labels, label_count) passed to Serializer_Graph_SetNode
LabelLists == {<<>>} \cup {<<a>> : a \in Labels}
                     \cup {<<a, b>> : a \in Labels, b \in Labels}

VARIABLES
    nodes,        \* g->nodes : DataBlock [items, deletedIdx]
    edges,        \* g->edges : DataBlock [items, deletedIdx]
    labels,       \* RG_MATRIX_M of every label matrix
    node_labels,  \* RG_MATRIX_M of the node-label matrix
    adj_m,        \* RG_MATRIX_M of the adjacency matrix
    adj_tm,       \* RG_MATRIX_TM of the adjacency matrix
    rel_m,        \* RG_MATRIX_M of every relation matrix
    rel_tm,       \* RG_MATRIX_TM of every relation matrix
    heap,         \* the arrays of parallel edges, by address
    stats,        \* g->stats : edge count per relation type
    n,            \* the Node the last SetNode call filled in
    e,            \* the Edge the last SetEdge call filled in
    aborted,      \* the process died on a fatal failure
    h             \* history of the calls made (not program state)

vars == <<nodes, edges, labels, node_labels, adj_m, adj_tm, rel_m, rel_tm,
          heap, stats, n, e, aborted, h>>

graph == <<nodes, edges, labels, node_labels, adj_m, adj_tm, rel_m, rel_tm,
           heap, stats, n, e>>

matrices == <<labels, node_labels, adj_m, adj_tm, rel_m, rel_tm, heap>>

\* ------------------------------------------------------ GraphBLAS primitives
EmptyMatrix == [p \in {} |-> FALSE]

GrB_Matrix_setElement(m, x, i, j) ==
    [p \in (DOMAIN m) \cup {<<i, j>>} |-> IF p = <<i, j>> THEN x ELSE m[p]]

\* the info GrB_Matrix_extractElement returns
GrB_Matrix_extractElement(m, i, j) ==
    IF <<i, j>> \in DOMAIN m THEN "GrB_SUCCESS" ELSE "GrB_NO_VALUE"

\* v = diag(m, 0): the sparse vector of the diagonal entries of m
GxB_Vector_diag(m, dim) ==
    [k \in {k \in 0..(dim - 1) : <<k, k>> \in DOMAIN m} |-> m[<<k, k>>]]

\* C(:, j) = v, no mask, no accumulator: column j of C becomes v
GxB_Col_subassign(C, v, j) ==
    [p \in {q \in DOMAIN C : q[2] # j} \cup {<<k, j>> : k \in DOMAIN v} |->
        IF p[2] = j THEN v[p[1]] ELSE C[p]]

\* ------------------------------------------------------------ tagged words
Word(x) == [msb |-> FALSE, low |-> x]

SINGLE_EDGE(x) == ~x.msb

SET_MSB(x) == [x EXCEPT !.msb = TRUE]

CLEAR_MSB(x) == [x EXCEPT !.msb = FALSE]

\* ------------------------------------------------------------------ arrays
FreeAddrs(hp) == HeapAddrs \ DOMAIN hp

\* the allocator hands out the lowest free address
Malloc(hp) == CHOOSE a \in FreeAddrs(hp) : \A b \in FreeAddrs(hp) : a <= b

HeapStore(hp, a, arr) == [b \in (DOMAIN hp) \cup {a} |-> IF b = a THEN arr ELSE hp[b]]

HeapFree(hp, a) == [b \in (DOMAIN hp) \ {a} |-> hp[b]]

\* array_new followed by the appends of its first elements: <<address, heap>>
array_new(hp, elems) == <<Malloc(hp), HeapStore(hp, Malloc(hp), elems)>>

\* array_append: the array grows in place, or realloc moves it
\* (moved): <<address, heap>>
array_append(hp, a, x, moved) ==
    IF moved
    THEN <<Malloc(hp), HeapFree(HeapStore(hp, Malloc(hp), Append(hp[a], x)), a)>>
    ELSE <<a, HeapStore(hp, a, Append(hp[a], x))>>

\* --------------------------------------------------------------- DataBlock
Entity0 == [status |-> "free", prop_count |-> 0, properties |-> "NULL"]

DataBlock_New(ids) == [items |-> [i \in ids |-> Entity0], deletedIdx |-> <<>>]

\* allocation at id fails when the slot is allocated and not deleted
DataBlock_CanAllocate(db, id) == db.items[id].status # "allocated"

DataBlock_AllocateItemOutOfOrder(db, id) ==
    [db EXCEPT !.items[id].status = "allocated"]

DataBlock_MarkAsDeletedOutOfOrder(db, id) ==
    [db EXCEPT !.items[id].status = "deleted",
               !.deletedIdx = Append(@, id)]

\* -------------------------------------------------------------- statistics
GraphStatistics_IncEdgeCount(st, r, delta) == [st EXCEPT ![r] = @ + delta]

\* ------------------------------------------------------------ graph access
Graph_GetLabelMatrix(lbls, label) == lbls[label]

Graph_GetRelationMatrix(rels, r) == rels[r]

\* ------------------------------------------------------------------- Init
NoNode == [id |-> -1, entity |-> -1]

NoEdge == [id |-> -1, entity |-> -1, relationID |-> -1,
           srcNodeID |-> -1, destNodeID |-> -1]

Pairs == NodeIds \X NodeIds

\* the calls the driver makes, as the history records the last one
NoCall == [op |-> "none"]

NodeCall(id, ls) == [op |-> "set_node", id |-> id, labels |-> ls]

ProjectCall == [op |-> "project_node_labels"]

EdgeCall(multi_edge, edge_id, src, dest, r) ==
    [op |-> "set_edge", multi_edge |-> multi_edge, id |-> edge_id,
     src |-> src, dest |-> dest, r |-> r]

DeleteNodeCall(id) == [op |-> "mark_node_deleted", id |-> id]

DeleteEdgeCall(id) == [op |-> "mark_edge_deleted", id |-> id]

HInit ==
    [nops         |-> 0,
     ins          |-> [r \in Relations |-> [p \in Pairs |-> <<>>]],
     setEdgeCalls |-> [r \in Relations |-> 0],
     nodeDel      |-> <<>>,
     edgeDel      |-> <<>>,
     created      |-> {},
     lastL        |-> [i \in NodeIds |-> {}],
     allL         |-> [i \in NodeIds |-> {}],
     projRun      |-> 0,
     edgeArgs     |-> [i \in EdgeIds |-> NoCall],
     overwrote    |-> FALSE,
     last         |-> NoCall]

Init ==
    /\ nodes = DataBlock_New(NodeIds)
    /\ edges = DataBlock_New(EdgeIds)
    /\ labels = [l \in Labels |-> EmptyMatrix]
    /\ node_labels = EmptyMatrix
    /\ adj_m = EmptyMatrix
    /\ adj_tm = EmptyMatrix
    /\ rel_m = [r \in Relations |-> EmptyMatrix]
    /\ rel_tm = [r \in Relations |-> EmptyMatrix]
    /\ heap = [a \in {} |-> <<>>]
    /\ stats = [r \in Relations |-> 0]
    /\ n = NoNode
    /\ e = NoEdge
    /\ aborted = FALSE
    /\ h = HInit

\* ------------------------------------------------------ reading the graph
\* whether matrix m holds an entry at (i, j)
Present(m, i, j) == <<i, j>> \in DOMAIN m

\* whether boolean matrix m holds true at (i, j)
IsSet(m, i, j) == Present(m, i, j) /\ m[<<i, j>>] = TRUE

\* the edge ids a relation cell stands for, in the order a reader enumerates
\* them; a tagged reference to no live array reads as <<-1>>
DecodeCell(m, hp, i, j) ==
    IF ~Present(m, i, j) THEN <<>>
    ELSE LET x == m[<<i, j>>]
             a == CLEAR_MSB(x).low
         IN  IF SINGLE_EDGE(x) THEN <<x.low>>
             ELSE IF a \in DOMAIN hp
                  THEN [k \in 1..Len(hp[a]) |-> hp[a][k].low]
                  ELSE <<-1>>

\* whether edge id occurs in some cell of relation matrix r
EdgeInRelation(r, id) ==
    \E p \in DOMAIN rel_m[r] :
        \E k \in 1..Len(DecodeCell(rel_m[r], heap, p[1], p[2])) :
            DecodeCell(rel_m[r], heap, p[1], p[2])[k] = id

\* ------------------------------------------------- Serializer_Graph_SetNode
RECURSIVE SetNodeLabelLoop_RowLabel(_, _, _, _)
\* faulty variant: the label bit is written in column label of row id
SetNodeLabelLoop_RowLabel(lbls, id, ls, i) ==
    IF i > Len(ls) THEN lbls
    ELSE LET label == ls[i]
             m     == Graph_GetLabelMatrix(lbls, label)
         IN  SetNodeLabelLoop_RowLabel(
                 [lbls EXCEPT ![label] = GrB_Matrix_setElement(m, TRUE, id, label)],
                 id, ls, i + 1)

RECURSIVE SetNodeLabelLoop(_, _, _, _)
\* the loop of lines 31-37, from index i on
SetNodeLabelLoop(lbls, id, ls, i) ==
    IF i > Len(ls) THEN lbls
    ELSE LET label == ls[i]
             m     == Graph_GetLabelMatrix(lbls, label)
         IN  SetNodeLabelLoop(
                 [lbls EXCEPT ![label] = GrB_Matrix_setElement(m, TRUE, id, id)],
                 id, ls, i + 1)

\* faulty variant: the labels are written before the slot is allocated
Serializer_Graph_SetNode_LabelsFirst(id, ls) ==
    /\ labels' = SetNodeLabelLoop(labels, id, ls, 1)
    /\ IF ~DataBlock_CanAllocate(nodes, id)
       THEN /\ aborted' = TRUE
            /\ UNCHANGED <<nodes, n>>
       ELSE /\ nodes' = [DataBlock_AllocateItemOutOfOrder(nodes, id) EXCEPT
                            !.items[id].prop_count = 0,
                            !.items[id].properties = "NULL"]
            /\ n' = [id |-> id, entity |-> id]
            /\ UNCHANGED aborted
    /\ UNCHANGED <<edges, node_labels, adj_m, adj_tm, rel_m, rel_tm,
                   heap, stats, e>>

\* faulty variant: set_node also sets the bits of the node's row in the
\* node-label matrix
Serializer_Graph_SetNode_EagerNodeLabels(id, ls) ==
    IF ~DataBlock_CanAllocate(nodes, id)
    THEN /\ aborted' = TRUE
         /\ UNCHANGED graph
    ELSE /\ nodes' = [DataBlock_AllocateItemOutOfOrder(nodes, id) EXCEPT
                         !.items[id].prop_count = 0,
                         !.items[id].properties = "NULL"]
         /\ n' = [id |-> id, entity |-> id]
         /\ labels' = SetNodeLabelLoop(labels, id, ls, 1)
         /\ node_labels' =
                [p \in (DOMAIN node_labels)
                           \cup {<<id, ls[i]>> : i \in 1..Len(ls)} |-> TRUE]
         /\ UNCHANGED <<edges, adj_m, adj_tm, rel_m, rel_tm,
                        heap, stats, e, aborted>>

Serializer_Graph_SetNode(id, ls) ==
    IF ~DataBlock_CanAllocate(nodes, id)
    THEN /\ aborted' = TRUE
         /\ UNCHANGED graph
    ELSE /\ nodes' = [DataBlock_AllocateItemOutOfOrder(nodes, id) EXCEPT
                         !.items[id].prop_count = 0,
                         !.items[id].properties = "NULL"]
         /\ n' = [id |-> id, entity |-> id]
         /\ labels' = SetNodeLabelLoop(labels, id, ls, 1)
         /\ UNCHANGED <<edges, node_labels, adj_m, adj_tm, rel_m, rel_tm,
                        heap, stats, e, aborted>>

\* ------------------------------------------- Serializer_Graph_SetNodeLabels
RECURSIVE SetNodeLabelsLoop(_, _, _, _, _)
\* the loop of lines 51-59, from label i on
SetNodeLabelsLoop(nl, lbls, node_count, label_count, i) ==
    IF i >= label_count THEN nl
    ELSE LET m == Graph_GetLabelMatrix(lbls, i)
             v == GxB_Vector_diag(m, node_count)
         IN  SetNodeLabelsLoop(GxB_Col_subassign(nl, v, i),
                               lbls, node_count, label_count, i + 1)

\* faulty variant: the loop stops one label early
Serializer_Graph_SetNodeLabels_OffByOne ==
    /\ node_labels' = SetNodeLabelsLoop(node_labels, labels,
                          Graph_RequiredMatrixDim, Graph_LabelTypeCount - 1, 0)
    /\ UNCHANGED <<nodes, edges, labels, adj_m, adj_tm, rel_m, rel_tm,
                   heap, stats, n, e, aborted>>

Serializer_Graph_SetNodeLabels ==
    /\ node_labels' = SetNodeLabelsLoop(node_labels, labels,
                          Graph_RequiredMatrixDim, Graph_LabelTypeCount, 0)
    /\ UNCHANGED <<nodes, edges, labels, adj_m, adj_tm, rel_m, rel_tm,
                   heap, stats, n, e, aborted>>

\* ------------------------------------------------- deletion and its lists
\* faulty variant: deleting an edge takes it off its relation's edge count
Serializer_Graph_MarkEdgeDeleted_Uncount(id) ==
    /\ edges' = DataBlock_MarkAsDeletedOutOfOrder(edges, id)
    /\ stats' = [r \in Relations |->
                    IF EdgeInRelation(r, id) /\ stats[r] > 0
                    THEN stats[r] - 1 ELSE stats[r]]
    /\ UNCHANGED <<nodes, labels, node_labels, adj_m, adj_tm, rel_m, rel_tm,
                   heap, n, e, aborted>>

Serializer_Graph_MarkEdgeDeleted(id) ==
    /\ edges' = DataBlock_MarkAsDeletedOutOfOrder(edges, id)
    /\ UNCHANGED <<nodes, labels, node_labels, adj_m, adj_tm, rel_m, rel_tm,
                   heap, stats, n, e, aborted>>

\* faulty variant: the node is tombstoned in the edge store
Serializer_Graph_MarkNodeDeleted_WrongBlock(id) ==
    /\ edges' = DataBlock_MarkAsDeletedOutOfOrder(edges, id)
    /\ UNCHANGED <<nodes, labels, node_labels, adj_m, adj_tm, rel_m, rel_tm,
                   heap, stats, n, e, aborted>>

\* faulty variant: deleting a node removes its label entries
Serializer_Graph_MarkNodeDeleted_ClearsLabels(id) ==
    /\ nodes' = DataBlock_MarkAsDeletedOutOfOrder(nodes, id)
    /\ labels' = [l \in Labels |->
                     [p \in (DOMAIN labels[l]) \ {<<id, id>>} |-> labels[l][p]]]
    /\ UNCHANGED <<edges, node_labels, adj_m, adj_tm, rel_m, rel_tm,
                   heap, stats, n, e, aborted>>

Serializer_Graph_MarkNodeDeleted(id) ==
    /\ nodes' = DataBlock_MarkAsDeletedOutOfOrder(nodes, id)
    /\ UNCHANGED <<edges, labels, node_labels, adj_m, adj_tm, rel_m, rel_tm,
                   heap, stats, n, e, aborted>>

Serializer_Graph_GetDeletedNodesList == nodes.deletedIdx

Serializer_Graph_GetDeletedEdgesList == edges.deletedIdx

\* ------------------------------------------------- Serializer_Graph_SetEdge
\* faulty variant: the transpose cell is written at the forward coordinates
_OptimizedSingleEdgeFormConnection_NoSwap(src, dest, edge_id, r) ==
    LET M  == Graph_GetRelationMatrix(rel_m, r)
        TM == Graph_GetRelationMatrix(rel_tm, r)
    IN  /\ adj_m' = GrB_Matrix_setElement(adj_m, TRUE, src, dest)
        /\ adj_tm' = GrB_Matrix_setElement(adj_tm, TRUE, dest, src)
        /\ rel_m' = [rel_m EXCEPT
               ![r] = GrB_Matrix_setElement(M, Word(edge_id), src, dest)]
        /\ rel_tm' = [rel_tm EXCEPT
               ![r] = GrB_Matrix_setElement(TM, Word(edge_id), src, dest)]
        /\ stats' = GraphStatistics_IncEdgeCount(stats, r, 1)
        /\ UNCHANGED heap

\* faulty variant: the adjacency bits are written the wrong way round
_OptimizedSingleEdgeFormConnection_AdjSwapped(src, dest, edge_id, r) ==
    LET M  == Graph_GetRelationMatrix(rel_m, r)
        TM == Graph_GetRelationMatrix(rel_tm, r)
    IN  /\ adj_m' = GrB_Matrix_setElement(adj_m, TRUE, dest, src)
        /\ adj_tm' = GrB_Matrix_setElement(adj_tm, TRUE, src, dest)
        /\ rel_m' = [rel_m EXCEPT
               ![r] = GrB_Matrix_setElement(M, Word(edge_id), src, dest)]
        /\ rel_tm' = [rel_tm EXCEPT
               ![r] = GrB_Matrix_setElement(TM, Word(edge_id), dest, src)]
        /\ stats' = GraphStatistics_IncEdgeCount(stats, r, 1)
        /\ UNCHANGED heap

\* faulty variant: a cell that already holds a value is left as it is
_OptimizedSingleEdgeFormConnection_KeepExisting(src, dest, edge_id, r) ==
    LET M  == Graph_GetRelationMatrix(rel_m, r)
        TM == Graph_GetRelationMatrix(rel_tm, r)
    IN  /\ adj_m' = GrB_Matrix_setElement(adj_m, TRUE, src, dest)
        /\ adj_tm' = GrB_Matrix_setElement(adj_tm, TRUE, dest, src)
        /\ IF GrB_Matrix_extractElement(M, src, dest) = "GrB_NO_VALUE"
           THEN /\ rel_m' = [rel_m EXCEPT
                       ![r] = GrB_Matrix_setElement(M, Word(edge_id), src, dest)]
                /\ rel_tm' = [rel_tm EXCEPT
                       ![r] = GrB_Matrix_setElement(TM, Word(edge_id), dest, src)]
           ELSE UNCHANGED <<rel_m, rel_tm>>
        /\ stats' = GraphStatistics_IncEdgeCount(stats, r, 1)
        /\ UNCHANGED heap

_OptimizedSingleEdgeFormConnection(src, dest, edge_id, r) ==
    LET M  == Graph_GetRelationMatrix(rel_m, r)
        TM == Graph_GetRelationMatrix(rel_tm, r)
    IN  /\ adj_m' = GrB_Matrix_setElement(adj_m, TRUE, src, dest)
        /\ adj_tm' = GrB_Matrix_setElement(adj_tm, TRUE, dest, src)
        /\ rel_m' = [rel_m EXCEPT
               ![r] = GrB_Matrix_setElement(M, Word(edge_id), src, dest)]
        /\ rel_tm' = [rel_tm EXCEPT
               ![r] = GrB_Matrix_setElement(TM, Word(edge_id), dest, src)]
        /\ stats' = GraphStatistics_IncEdgeCount(stats, r, 1)
        /\ UNCHANGED heap

\* the multi path with one slip: "lose_first" seeds the new array with the
\* new id alone, "no_count" leaves the edge count alone when the cell held
\* a value, "no_tag" writes the array reference back untagged after an
\* append, "count_twice" counts both ids of a new array
MultiEdgeFormConnectionSlip(src, dest, edge_id, r, slip) ==
    LET M  == Graph_GetRelationMatrix(rel_m, r)
        TM == Graph_GetRelationMatrix(rel_tm, r)
        absent == GrB_Matrix_extractElement(M, src, dest) = "GrB_NO_VALUE"
    IN  /\ adj_m' = GrB_Matrix_setElement(adj_m, TRUE, src, dest)
        /\ adj_tm' = GrB_Matrix_setElement(adj_tm, TRUE, dest, src)
        /\ IF absent
           THEN /\ rel_m' = [rel_m EXCEPT
                       ![r] = GrB_Matrix_setElement(M, Word(edge_id), src, dest)]
                /\ rel_tm' = [rel_tm EXCEPT
                       ![r] = GrB_Matrix_setElement(TM, Word(edge_id), dest, src)]
                /\ UNCHANGED heap
           ELSE LET x == M[<<src, dest>>]
                    seed == IF slip = "lose_first" THEN <<Word(edge_id)>>
                            ELSE <<x, Word(edge_id)>>
                IN  \E res \in
                        IF SINGLE_EDGE(x)
                        THEN IF FreeAddrs(heap) = {} THEN {}
                             ELSE {array_new(heap, seed)}
                        ELSE {array_append(heap, CLEAR_MSB(x).low,
                                           Word(edge_id), moved) :
                                 moved \in IF FreeAddrs(heap) = {}
                                           THEN {FALSE} ELSE BOOLEAN} :
                        LET entries == res[1]
                            y       == IF slip = "no_tag" /\ ~SINGLE_EDGE(x)
                                       THEN Word(entries)
                                       ELSE SET_MSB(Word(entries))
                        IN  /\ heap' = res[2]
                            /\ rel_m' = [rel_m EXCEPT
                                   ![r] = GrB_Matrix_setElement(M, y, src, dest)]
                            /\ rel_tm' = [rel_tm EXCEPT
                                   ![r] = GrB_Matrix_setElement(TM, y, dest, src)]
        /\ stats' = IF slip = "no_count" /\ ~absent THEN stats
                    ELSE IF slip = "count_twice" /\ ~absent
                              /\ SINGLE_EDGE(M[<<src, dest>>])
                         THEN GraphStatistics_IncEdgeCount(stats, r, 2)
                         ELSE GraphStatistics_IncEdgeCount(stats, r, 1)

\* faulty variant: the swap to a multi-entry cell drops the id the cell held
_OptimizedMultiEdgeFormConnection_LoseFirst(src, dest, edge_id, r) ==
    MultiEdgeFormConnectionSlip(src, dest, edge_id, r, "lose_first")

\* faulty variant: only the first edge of a cell is counted
_OptimizedMultiEdgeFormConnection_NoCount(src, dest, edge_id, r) ==
    MultiEdgeFormConnectionSlip(src, dest, edge_id, r, "no_count")

\* faulty variant: an append writes the array reference back untagged
_OptimizedMultiEdgeFormConnection_NoTag(src, dest, edge_id, r) ==
    MultiEdgeFormConnectionSlip(src, dest, edge_id, r, "no_tag")

\* faulty variant: the swap to a multi-entry cell counts both of its ids
_OptimizedMultiEdgeFormConnection_CountTwice(src, dest, edge_id, r) ==
    MultiEdgeFormConnectionSlip(src, dest, edge_id, r, "count_twice")

_OptimizedMultiEdgeFormConnection(src, dest, edge_id, r) ==
    LET M  == Graph_GetRelationMatrix(rel_m, r)
        TM == Graph_GetRelationMatrix(rel_tm, r)
    IN  /\ adj_m' = GrB_Matrix_setElement(adj_m, TRUE, src, dest)
        /\ adj_tm' = GrB_Matrix_setElement(adj_tm, TRUE, dest, src)
        /\ IF GrB_Matrix_extractElement(M, src, dest) = "GrB_NO_VALUE"
           THEN /\ rel_m' = [rel_m EXCEPT
                       ![r] = GrB_Matrix_setElement(M, Word(edge_id), src, dest)]
                /\ rel_tm' = [rel_tm EXCEPT
                       ![r] = GrB_Matrix_setElement(TM, Word(edge_id), dest, src)]
                /\ UNCHANGED heap
           ELSE LET x == M[<<src, dest>>]
                IN  \E res \in
                        IF SINGLE_EDGE(x)
                        THEN \* swap from single entry to multi-entry
                             IF FreeAddrs(heap) = {} THEN {}
                             ELSE {array_new(heap, <<x, Word(edge_id)>>)}
                        ELSE \* append entry to array
                             {array_append(heap, CLEAR_MSB(x).low,
                                           Word(edge_id), moved) :
                                 moved \in IF FreeAddrs(heap) = {}
                                           THEN {FALSE} ELSE BOOLEAN} :
                        LET entries == res[1]
                            y       == SET_MSB(Word(entries))
                        IN  /\ heap' = res[2]
                            /\ rel_m' = [rel_m EXCEPT
                                   ![r] = GrB_Matrix_setElement(M, y, src, dest)]
                            /\ rel_tm' = [rel_tm EXCEPT
                                   ![r] = GrB_Matrix_setElement(TM, y, dest, src)]
        /\ stats' = GraphStatistics_IncEdgeCount(stats, r, 1)

\* faulty variant: the edge record gets its end points the wrong way round
Serializer_Graph_SetEdge_SwappedEnds(multi_edge, edge_id, src, dest, r) ==
    IF ~DataBlock_CanAllocate(edges, edge_id)
    THEN /\ aborted' = TRUE
         /\ UNCHANGED graph
    ELSE /\ edges' = [DataBlock_AllocateItemOutOfOrder(edges, edge_id) EXCEPT
                         !.items[edge_id].prop_count = 0,
                         !.items[edge_id].properties = "NULL"]
         /\ e' = [id |-> edge_id, entity |-> edge_id, relationID |-> r,
                  srcNodeID |-> dest, destNodeID |-> src]
         /\ IF multi_edge
            THEN _OptimizedMultiEdgeFormConnection(src, dest, edge_id, r)
            ELSE _OptimizedSingleEdgeFormConnection(src, dest, edge_id, r)
         /\ UNCHANGED <<nodes, labels, node_labels, n, aborted>>

Serializer_Graph_SetEdge(multi_edge, edge_id, src, dest, r) ==
    IF ~DataBlock_CanAllocate(edges, edge_id)
    THEN /\ aborted' = TRUE
         /\ UNCHANGED graph
    ELSE /\ edges' = [DataBlock_AllocateItemOutOfOrder(edges, edge_id) EXCEPT
                         !.items[edge_id].prop_count = 0,
                         !.items[edge_id].properties = "NULL"]
         /\ e' = [id |-> edge_id, entity |-> edge_id, relationID |-> r,
                  srcNodeID |-> src, destNodeID |-> dest]
         /\ IF multi_edge
            THEN _OptimizedMultiEdgeFormConnection(src, dest, edge_id, r)
            ELSE _OptimizedSingleEdgeFormConnection(src, dest, edge_id, r)
         /\ UNCHANGED <<nodes, labels, node_labels, n, aborted>>

\* ----------------------------------------- set_edge with failing primitives
\* the matrix primitive calls of one set_edge call, in program order
Steps == {"adj_m", "adj_tm", "extract", "m", "tm"}

\* the info a set-element call reports at a step, given the steps at which
\* the library fails
Info(fails, step) ==
    IF step \in fails THEN "GrB_OUT_OF_MEMORY" ELSE "GrB_SUCCESS"

\* a set-element call that reports info: a failing call writes nothing
SetElementReporting(m, x, i, j, info) ==
    IF info = "GrB_SUCCESS" THEN GrB_Matrix_setElement(m, x, i, j) ELSE m

\* the words x can hold when extractElement fails and leaves it unwritten
GarbageWords ==
    {Word(k) : k \in EdgeIds} \cup {SET_MSB(Word(a)) : a \in HeapAddrs}

\* the multi path takes its first branch: the presence check says no value
NoValue(src, dest, r, fails) ==
    /\ "extract" \notin fails
    /\ GrB_Matrix_extractElement(Graph_GetRelationMatrix(rel_m, r), src, dest)
           = "GrB_NO_VALUE"

\* the word the second branch of the multi path works on
ExtractedWord(src, dest, r, fails, garbage) ==
    IF "extract" \in fails THEN garbage
    ELSE Graph_GetRelationMatrix(rel_m, r)[<<src, dest>>]

\* the second branch of the multi path appends through a reference to no
\* live array
WildAppend(src, dest, r, fails, garbage) ==
    /\ ~NoValue(src, dest, r, fails)
    /\ ~SINGLE_EDGE(ExtractedWord(src, dest, r, fails, garbage))
    /\ CLEAR_MSB(ExtractedWord(src, dest, r, fails, garbage)).low
           \notin DOMAIN heap

\* ASSERT(info == GrB_SUCCESS) ends the process; the steps below are the
\* primitive calls a call of either path gets to make
StepsRun(multi_edge, src, dest, r, fails, garbage) ==
    IF "adj_m" \in fails THEN {"adj_m"}
    ELSE IF "adj_tm" \in fails THEN {"adj_m", "adj_tm"}
    ELSE IF ~multi_edge
    THEN IF "m" \in fails THEN {"adj_m", "adj_tm", "m"}
         ELSE {"adj_m", "adj_tm", "m", "tm"}
    ELSE IF NoValue(src, dest, r, fails)
    THEN IF "m" \in fails THEN {"adj_m", "adj_tm", "extract", "m"}
         ELSE Steps
    ELSE IF WildAppend(src, dest, r, fails, garbage)
    THEN {"adj_m", "adj_tm", "extract"}
    ELSE Steps

\* the steps whose info an ASSERT checks
StepsAsserted(multi_edge, src, dest, r, fails) ==
    IF ~multi_edge THEN {"adj_m", "adj_tm", "m", "tm"}
    ELSE IF NoValue(src, dest, r, fails) THEN {"adj_m", "adj_tm", "m", "tm"}
    ELSE {"adj_m", "adj_tm"}

_OptimizedSingleEdgeFormConnection_Reporting(src, dest, edge_id, r, fails) ==
    LET M   == Graph_GetRelationMatrix(rel_m, r)
        TM  == Graph_GetRelationMatrix(rel_tm, r)
        ran == StepsRun(FALSE, src, dest, r, fails, Word(0))
        RunInfo(step) == IF step \in ran THEN Info(fails, step) ELSE "not run"
    IN  /\ adj_m' = SetElementReporting(adj_m, TRUE, src, dest,
                                        RunInfo("adj_m"))
        /\ adj_tm' = SetElementReporting(adj_tm, TRUE, dest, src,
                                         RunInfo("adj_tm"))
        /\ rel_m' = [rel_m EXCEPT ![r] =
               SetElementReporting(M, Word(edge_id), src, dest, RunInfo("m"))]
        /\ rel_tm' = [rel_tm EXCEPT ![r] =
               SetElementReporting(TM, Word(edge_id), dest, src, RunInfo("tm"))]
        /\ aborted' = (ran \cap fails # {})
        /\ stats' = IF ran \cap fails # {} THEN stats
                    ELSE GraphStatistics_IncEdgeCount(stats, r, 1)
        /\ UNCHANGED heap

_OptimizedMultiEdgeFormConnection_Reporting(src, dest, edge_id, r, fails, garbage) ==
    LET M   == Graph_GetRelationMatrix(rel_m, r)
        TM  == Graph_GetRelationMatrix(rel_tm, r)
        ran == StepsRun(TRUE, src, dest, r, fails, garbage)
        RunInfo(step) == IF step \in ran THEN Info(fails, step) ELSE "not run"
        stopped == ran \cap StepsAsserted(TRUE, src, dest, r, fails) \cap fails
                       # {}
    IN  /\ adj_m' = SetElementReporting(adj_m, TRUE, src, dest,
                                        RunInfo("adj_m"))
        /\ adj_tm' = SetElementReporting(adj_tm, TRUE, dest, src,
                                         RunInfo("adj_tm"))
        /\ IF "extract" \notin ran
           THEN /\ aborted' = TRUE
                /\ UNCHANGED <<rel_m, rel_tm, heap, stats>>
           ELSE IF NoValue(src, dest, r, fails)
           THEN /\ rel_m' = [rel_m EXCEPT ![r] =
                       SetElementReporting(M, Word(edge_id), src, dest,
                                           RunInfo("m"))]
                /\ rel_tm' = [rel_tm EXCEPT ![r] =
                       SetElementReporting(TM, Word(edge_id), dest, src,
                                           RunInfo("tm"))]
                /\ aborted' = stopped
                /\ stats' = IF stopped THEN stats
                            ELSE GraphStatistics_IncEdgeCount(stats, r, 1)
                /\ UNCHANGED heap
           ELSE IF WildAppend(src, dest, r, fails, garbage)
           THEN /\ aborted' = TRUE
                /\ UNCHANGED <<rel_m, rel_tm, heap, stats>>
           ELSE LET x == ExtractedWord(src, dest, r, fails, garbage)
                IN  \E res \in
                        IF SINGLE_EDGE(x)
                        THEN IF FreeAddrs(heap) = {} THEN {}
                             ELSE {array_new(heap, <<x, Word(edge_id)>>)}
                        ELSE {array_append(heap, CLEAR_MSB(x).low,
                                           Word(edge_id), moved) :
                                 moved \in IF FreeAddrs(heap) = {}
                                           THEN {FALSE} ELSE BOOLEAN} :
                        LET y == SET_MSB(Word(res[1]))
                        IN  /\ heap' = res[2]
                            /\ rel_m' = [rel_m EXCEPT ![r] =
                                   SetElementReporting(M, y, src, dest,
                                                       Info(fails, "m"))]
                            /\ rel_tm' = [rel_tm EXCEPT ![r] =
                                   SetElementReporting(TM, y, dest, src,
                                                       Info(fails, "tm"))]
                            /\ aborted' = FALSE
                            /\ stats' = GraphStatistics_IncEdgeCount(stats, r, 1)

Serializer_Graph_SetEdge_Reporting(multi_edge, edge_id, src, dest, r, fails, garbage) ==
    IF ~DataBlock_CanAllocate(edges, edge_id)
    THEN /\ aborted' = TRUE
         /\ UNCHANGED graph
    ELSE /\ edges' = [DataBlock_AllocateItemOutOfOrder(edges, edge_id) EXCEPT
                         !.items[edge_id].prop_count = 0,
                         !.items[edge_id].properties = "NULL"]
         /\ e' = [id |-> edge_id, entity |-> edge_id, relationID |-> r,
                  srcNodeID |-> src, destNodeID |-> dest]
         /\ IF multi_edge
            THEN _OptimizedMultiEdgeFormConnection_Reporting(
                     src, dest, edge_id, r, fails, garbage)
            ELSE _OptimizedSingleEdgeFormConnection_Reporting(
                     src, dest, edge_id, r, fails)
         /\ UNCHANGED <<nodes, labels, node_labels, n>>

\* ------------------------------------------------------- the loading driver
\* a call is made while the process lives and the run has calls left
Budget(k) == ~aborted /\ h.nops < k

LabelSet(ls) == {ls[i] : i \in 1..Len(ls)}

SetNode(id, ls) ==
    /\ Serializer_Graph_SetNode(id, ls)
    /\ h' = IF aborted'
            THEN [h EXCEPT !.nops = @ + 1, !.last = NodeCall(id, ls)]
            ELSE [h EXCEPT !.nops = @ + 1,
                           !.last = NodeCall(id, ls),
                           !.created = @ \cup {id},
                           !.lastL[id] = LabelSet(ls),
                           !.allL[id] = @ \cup LabelSet(ls),
                           !.projRun = 0]

SetNodeLabels ==
    /\ Serializer_Graph_SetNodeLabels
    /\ h' = [h EXCEPT !.nops = @ + 1, !.last = ProjectCall,
                      !.projRun = @ + 1]

SetEdge(multi_edge, edge_id, src, dest, r) ==
    /\ Serializer_Graph_SetEdge(multi_edge, edge_id, src, dest, r)
    /\ h' = IF aborted'
            THEN [h EXCEPT !.nops = @ + 1,
                           !.last = EdgeCall(multi_edge, edge_id, src, dest, r)]
            ELSE [h EXCEPT !.nops = @ + 1,
                           !.last = EdgeCall(multi_edge, edge_id, src, dest, r),
                           !.setEdgeCalls[r] = @ + 1,
                           !.ins[r][<<src, dest>>] =
                               IF multi_edge THEN Append(@, edge_id)
                               ELSE <<edge_id>>,
                           !.edgeArgs[edge_id] =
                               [op |-> "set_edge", r |-> r, src |-> src, dest |-> dest],
                           !.overwrote =
                               @ \/ (~multi_edge /\ h.ins[r][<<src, dest>>] # <<>>)]

MarkNodeDeleted(id) ==
    /\ Serializer_Graph_MarkNodeDeleted(id)
    /\ h' = [h EXCEPT !.nops = @ + 1, !.last = DeleteNodeCall(id),
                      !.nodeDel = Append(@, id)]

MarkEdgeDeleted(id) ==
    /\ Serializer_Graph_MarkEdgeDeleted(id)
    /\ h' = [h EXCEPT !.nops = @ + 1, !.last = DeleteEdgeCall(id),
                      !.edgeDel = Append(@, id)]

\* every call of the API, in any order
Next ==
    \/ \E id \in NodeIds, ls \in LabelLists :
           Budget(MaxCalls) /\ SetNode(id, ls)
    \/ Budget(MaxCalls) /\ SetNodeLabels
    \/ \E multi_edge \in BOOLEAN, edge_id \in EdgeIds, src \in NodeIds,
          dest \in NodeIds, r \in Relations :
           Budget(MaxCalls) /\ SetEdge(multi_edge, edge_id, src, dest, r)
    \/ \E id \in NodeIds : Budget(MaxCalls) /\ MarkNodeDeleted(id)
    \/ \E id \in EdgeIds : Budget(MaxCalls) /\ MarkEdgeDeleted(id)

Spec == Init /\ [][Next]_vars

\* the node phase of a load: the calls that work on nodes and labels
NodePhase ==
    \/ \E id \in NodeIds, ls \in LabelLists :
           Budget(MaxNodeCalls) /\ SetNode(id, ls)
    \/ Budget(MaxNodeCalls) /\ SetNodeLabels
    \/ \E id \in NodeIds : Budget(MaxNodeCalls) /\ MarkNodeDeleted(id)

SpecNodes == Init /\ [][NodePhase]_vars

\* a load whose set_edge calls all take the multi path
MultiEdgePhase ==
    \E edge_id \in EdgeIds, src \in NodeIds, dest \in NodeIds,
       r \in Relations :
        Budget(MaxCalls) /\ SetEdge(TRUE, edge_id, src, dest, r)

SpecMulti == Init /\ [][MultiEdgePhase]_vars

\* a set_edge call during which the library fails at the steps of fails;
\* fails names only calls the code gets to make, and garbage matters only
\* when the presence check fails
SetEdgeReporting(multi_edge, edge_id, src, dest, r, fails, garbage) ==
    /\ fails \subseteq
           IF DataBlock_CanAllocate(edges, edge_id)
           THEN StepsRun(multi_edge, src, dest, r, fails, garbage)
           ELSE {}
    /\ "extract" \notin fails => garbage = Word(0)
    /\ Serializer_Graph_SetEdge_Reporting(multi_edge, edge_id, src, dest, r,
                                          fails, garbage)
    /\ h' = [h EXCEPT !.nops = @ + 1,
                      !.last = [op |-> "set_edge", multi_edge |-> multi_edge,
                                id |-> edge_id, src |-> src, dest |-> dest,
                                r |-> r, failed |-> fails]]

\* the edge phase of a load on a library that may report failures
EdgePhaseReporting ==
    /\ Budget(MaxFaultCalls)
    /\ \E multi_edge \in BOOLEAN, edge_id \in EdgeIds, src \in NodeIds,
          dest \in NodeIds, r \in Relations, fails \in SUBSET Steps :
           \E garbage \in IF "extract" \in fails THEN GarbageWords
                           ELSE {Word(0)} :
               SetEdgeReporting(multi_edge, edge_id, src, dest, r,
                                fails, garbage)

SpecFaults == Init /\ [][EdgePhaseReporting]_vars

\* ------------------------------------------------------------------------
\* The properties.  The history h records what the driver called: ins is,
\* per relation cell, the edge ids inserted since the cell was last written
\* by the single path; setEdgeCalls counts the completed set_edge calls per
\* relation type; nodeDel and edgeDel are the ids passed to the two mark
\* calls; lastL and allL are the label set of the last set_node of an id and
\* the union over all of them; projRun counts the project_node_labels calls
\* since the last set_node; edgeArgs is the relation and end points the last
\* completed set_edge call of each edge id passed; overwrote tells that a single-path call found its cell
\* holding a value; last is the call the last step made.
\* ------------------------------------------------------------------------

MultiTagged(m, i, j) == Present(m, i, j) /\ ~SINGLE_EDGE(m[<<i, j>>])

\* C1: reading back a relation cell yields the edge ids inserted on that
\* pair and type in insertion order: no entry for none, the plain untagged
\* id for one, and a multi-tagged sequence e1, ..., eN for N >= 2 (the first
\* id stays at position 1 when the second arrives), also when the first
\* edge came through the single path.
C1_MultiEdgeReadBack ==
    \A r \in Relations, p \in Pairs :
        LET seq == h.ins[r][p]
            m   == rel_m[r]
        IN  /\ (seq = <<>>) <=> ~Present(m, p[1], p[2])
            /\ Len(seq) = 1 => m[p] = Word(seq[1])
            /\ Len(seq) >= 2 => /\ MultiTagged(m, p[1], p[2])
                                /\ DecodeCell(m, heap, p[1], p[2]) = seq

\* three edges inserted on one pair, the cell multi-tagged
C1_Witness ==
    \E r \in Relations, p \in Pairs :
        /\ Len(h.ins[r][p]) = 3
        /\ MultiTagged(rel_m[r], p[1], p[2])
        /\ h.last.op = "set_edge" /\ h.last.multi_edge

\* C2: a forward relation cell R[s,d] is present iff the transpose cell
\* RT[d,s] is, both decode to the same ordered edge ids, and adjacency[s,d]
\* is true iff adjacency_transpose[d,s] is, self-loops included.
C2_ForwardTransposePairing ==
    \A s \in NodeIds, d \in NodeIds :
        /\ IsSet(adj_m, s, d) <=> IsSet(adj_tm, d, s)
        /\ \A r \in Relations :
            /\ Present(rel_m[r], s, d) <=> Present(rel_tm[r], d, s)
            /\ DecodeCell(rel_m[r], heap, s, d) = DecodeCell(rel_tm[r], heap, d, s)
            /\ DecodeCell(rel_m[r], heap, s, d) # <<-1>>

\* a multi-tagged cell off the diagonal beside a self-loop
C2_Witness ==
    \E r \in Relations, q \in Relations, s \in NodeIds, d \in NodeIds :
        /\ s # d
        /\ Len(DecodeCell(rel_m[r], heap, s, d)) = 2
        /\ ~Present(rel_m[r], d, s)
        /\ Present(rel_m[q], d, d)

\* C3: the edge counter of relation type R is the number of completed
\* set_edge calls of type R: each call adds exactly 1 to its own type and
\* nothing to another, on either path and in every branch.
C3_EdgeCounter ==
    \A r \in Relations : stats[r] = h.setEdgeCalls[r]

\* two edges of one type in one multi-tagged cell, one edge of another type
C3_Witness ==
    \E r \in Relations, q \in Relations, p \in Pairs :
        /\ r # q
        /\ stats[r] = 2 /\ stats[q] = 1
        /\ MultiTagged(rel_m[r], p[1], p[2])

\* C4: after a completed set_edge call with the multi-edge flag clear, the
\* relation cell and its transpose mirror hold the untagged edge id and both
\* adjacency bits are true, whatever the cell held before.
C4_SingleEdgeCell ==
    (h.last.op = "set_edge" /\ ~h.last.multi_edge /\ ~aborted) =>
        LET c == h.last
        IN  /\ Present(rel_m[c.r], c.src, c.dest)
            /\ rel_m[c.r][<<c.src, c.dest>>] = Word(c.id)
            /\ Present(rel_tm[c.r], c.dest, c.src)
            /\ rel_tm[c.r][<<c.dest, c.src>>] = Word(c.id)
            /\ IsSet(adj_m, c.src, c.dest)
            /\ IsSet(adj_tm, c.dest, c.src)

\* the single path has just overwritten a multi-tagged cell: its array is
\* still on the heap and no cell refers to it
C4_Witness ==
    /\ h.last.op = "set_edge" /\ ~h.last.multi_edge /\ ~aborted
    /\ DOMAIN heap # {}
    /\ \A r \in Relations, p \in Pairs : ~MultiTagged(rel_m[r], p[1], p[2])

\* whether row id of the node-label matrix has its bit set in column l
NodeLabelBit(id, l) == IsSet(node_labels, id, l)

\* C5: once project_node_labels() has run after the set_node calls, the row
\* of every node created by set_node(id, L) has its bit set in column i iff
\* i is in L.
C5_LabelRoundTrip ==
    h.projRun > 0 =>
        \A id \in h.created, l \in Labels :
            NodeLabelBit(id, l) <=> l \in h.lastL[id]

\* C6: the deleted-node list is the ids passed to mark_node_deleted in call
\* order and the deleted-edge list the ids passed to mark_edge_deleted; a
\* mark_node_deleted call leaves the edge store and every other node slot
\* as they are, a mark_edge_deleted call the node store and every other
\* edge slot.
C6_ListsInCallOrder ==
    /\ Serializer_Graph_GetDeletedNodesList = h.nodeDel
    /\ Serializer_Graph_GetDeletedEdgesList = h.edgeDel

C6_OtherIdsUntouched ==
    /\ h'.last.op = "mark_node_deleted" =>
           /\ edges' = edges
           /\ \A j \in NodeIds \ {h'.last.id} : nodes'.items[j] = nodes.items[j]
    /\ h'.last.op = "mark_edge_deleted" =>
           /\ nodes' = nodes
           /\ \A j \in EdgeIds \ {h'.last.id} : edges'.items[j] = edges.items[j]

C7_DeletionKeepsMatrices ==
    [][h'.last.op \in {"mark_node_deleted", "mark_edge_deleted"} =>
           UNCHANGED <<matrices, stats>>]_vars

\* a node that carries a label and ends an edge has just been deleted
C7_Witness ==
    /\ h.last.op = "mark_node_deleted"
    /\ \E l \in Labels : IsSet(labels[l], h.last.id, h.last.id)
    /\ \E d \in NodeIds : IsSet(adj_m, h.last.id, d)

\* each column i of the node-label matrix is the diagonal of label matrix i
FullProjection(lbls) ==
    [p \in {q \in NodeIds \X Labels : Present(lbls[q[2]], q[1], q[1])} |->
        lbls[p[2]][<<p[1], p[1]>>]]

\* C8: a project_node_labels() call leaves the node-label matrix equal to
\* the projection of the current label matrices, and a call that follows
\* another with no set_node in between changes nothing.
C8_ProjectionIdempotent ==
    [][h'.last.op = "project_node_labels" =>
           /\ node_labels' = FullProjection(labels)
           /\ h.projRun > 0 => node_labels' = node_labels]_vars

\* the projection has run twice in a row over a labelled node
C8_Witness ==
    /\ h.projRun = 2
    /\ \E id \in NodeIds, l \in Labels : NodeLabelBit(id, l)

\* C9: no step lowers an edge counter, and only a set_edge call changes one.
C9_CounterMonotone ==
    [][/\ \A r \in Relations : stats'[r] >= stats[r]
       /\ stats' # stats => h'.last.op = "set_edge"]_vars

\* an edge that sits in a relation cell has just been marked deleted
C9_Witness ==
    /\ h.last.op = "mark_edge_deleted"
    /\ \E r \in Relations : EdgeInRelation(r, h.last.id) /\ stats[r] > 0

\* C10: a set_node or set_edge call on an id that is allocated and not
\* deleted aborts, and the aborting call changes no matrix, no edge counter
\* and no store.
C10_DoubleAllocationAborts ==
    [][/\ (h'.last.op = "set_node"
              /\ nodes.items[h'.last.id].status = "allocated") => aborted'
       /\ (h'.last.op = "set_edge"
              /\ edges.items[h'.last.id].status = "allocated") => aborted'
       /\ aborted' => UNCHANGED <<matrices, stats, nodes, edges>>]_vars

\* a set_node call that listed a label has aborted, the label bit not set
C10_Witness ==
    /\ aborted
    /\ h.last.op = "set_node"
    /\ \E i \in 1..Len(h.last.labels) :
           ~Present(labels[h.last.labels[i]], h.last.id, h.last.id)

\* the step was a completed set_edge call on pair p of relation r, through
\* the multi path (multi = TRUE) or the single path (multi = FALSE)
SetEdgeStepOn(r, p, multi) ==
    /\ h'.last.op = "set_edge" /\ ~aborted'
    /\ h'.last.multi_edge = multi
    /\ h'.last.r = r /\ <<h'.last.src, h'.last.dest>> = p

\* a cell becomes multi-tagged only out of a single-tagged one, by a
\* multi-path insertion that puts the new id behind the one it held
TagSetBySecondInsert(r, p) ==
    (~MultiTagged(rel_m[r], p[1], p[2]) /\ MultiTagged(rel_m'[r], p[1], p[2]))
        => /\ Present(rel_m[r], p[1], p[2])
           /\ SetEdgeStepOn(r, p, TRUE)
           /\ DecodeCell(rel_m'[r], heap', p[1], p[2]) =
                  <<rel_m[r][p].low, h'.last.id>>

\* a multi-path insertion into a multi-tagged cell appends and keeps the tag
AppendKeepsTag(r, p) ==
    (MultiTagged(rel_m[r], p[1], p[2]) /\ SetEdgeStepOn(r, p, TRUE))
        => /\ MultiTagged(rel_m'[r], p[1], p[2])
           /\ DecodeCell(rel_m'[r], heap', p[1], p[2]) =
                  Append(DecodeCell(rel_m[r], heap, p[1], p[2]), h'.last.id)

\* a multi-tagged cell and its mirror are multi-tagged after the step
StaysMultiTagged(r, p) ==
    MultiTagged(rel_m[r], p[1], p[2])
        => /\ MultiTagged(rel_m'[r], p[1], p[2])
           /\ MultiTagged(rel_tm'[r], p[2], p[1])

\* C11 as stated: a relation cell turns from single-tagged to multi-tagged
\* when the second parallel edge is inserted, an insertion into a
\* multi-tagged cell appends and keeps the tag, and a multi-tagged cell and
\* its mirror stay multi-tagged under every operation.
C11_TagMonotone ==
    [][\A r \in Relations, p \in Pairs :
          /\ TagSetBySecondInsert(r, p)
          /\ AppendKeepsTag(r, p)
          /\ StaysMultiTagged(r, p)]_vars

\* C11 amended: as above, but a multi-tagged cell and its mirror stay
\* multi-tagged under every operation other than a single-path set_edge on
\* the same pair and relation type, which replaces the cell and its mirror
\* with the untagged new id.
C11_TagMonotoneButSinglePath ==
    [][\A r \in Relations, p \in Pairs :
          /\ TagSetBySecondInsert(r, p)
          /\ AppendKeepsTag(r, p)
          /\ IF SetEdgeStepOn(r, p, FALSE)
             THEN /\ rel_m'[r][p] = Word(h'.last.id)
                  /\ rel_tm'[r][<<p[2], p[1]>>] = Word(h'.last.id)
             ELSE StaysMultiTagged(r, p)]_vars

\* an edge of a two-entry multi-tagged cell has been marked deleted and the
\* cell is still multi-tagged
C11_Witness ==
    \E r \in Relations, p \in Pairs :
        /\ MultiTagged(rel_m[r], p[1], p[2])
        /\ h.last.op = "mark_edge_deleted"
        /\ \E k \in 1..2 :
               DecodeCell(rel_m[r], heap, p[1], p[2])[k] = h.last.id

RECURSIVE SumOver(_, _)
\* the sum of f over the finite set S of its arguments
SumOver(f, S) ==
    IF S = {} THEN 0
    ELSE LET x == CHOOSE y \in S : TRUE
         IN  f[x] + SumOver(f, S \ {x})

\* the elements of a sequence
Elems(sq) == {sq[k] : k \in 1..Len(sq)}

\* every call so far was a set_edge call that completed (the ids of such
\* calls are pairwise distinct: a repeated id aborts)
OnlySetEdgeCalls ==
    ~aborted /\ h.nops = SumOver(h.setEdgeCalls, Relations)

\* the allocated edge id, passed in with relation a.r from a.src to a.dest,
\* is witnessed by the adjacency bit, by its relation cell and by the
\* transposed coordinates of both transposes
EdgeWitnessed(id) ==
    LET a == h.edgeArgs[id]
    IN  /\ a.op = "set_edge"
        /\ IsSet(adj_m, a.src, a.dest)
        /\ IsSet(adj_tm, a.dest, a.src)
        /\ id \in Elems(DecodeCell(rel_m[a.r], heap, a.src, a.dest))
        /\ id \in Elems(DecodeCell(rel_tm[a.r], heap, a.dest, a.src))

\* the record a completed set_edge call hands back carries its arguments
ReturnedEdgeAsPassed ==
    (h.last.op = "set_edge" /\ ~aborted)
        => e = [id |-> h.last.id, entity |-> h.last.id,
                relationID |-> h.last.r,
                srcNodeID |-> h.last.src, destNodeID |-> h.last.dest]

\* C12 as stated: in every state reached by set_edge calls with distinct
\* ids, every edge allocated in the edge store is witnessed by its adjacency
\* bit, by its id in the decoded relation cell and by the transposed
\* coordinates of the transposes, and the returned record carries the id,
\* relation type, source and destination passed in.
C12_ThreePlaceConsistency ==
    /\ OnlySetEdgeCalls =>
           \A id \in EdgeIds :
               edges.items[id].status = "allocated" => EdgeWitnessed(id)
    /\ ReturnedEdgeAsPassed

\* C12 amended: the same, in every state reached by set_edge calls with
\* distinct ids none of which took the single path on a pair and relation
\* type that already had an edge.
C12_ThreePlaceUnlessOverwritten ==
    /\ (OnlySetEdgeCalls /\ ~h.overwrote) =>
           \A id \in EdgeIds :
               edges.items[id].status = "allocated" => EdgeWitnessed(id)
    /\ ReturnedEdgeAsPassed

\* three edges are allocated, one through the single path and two through
\* the multi path, on two different cells, none overwritten
C12_Witness ==
    /\ OnlySetEdgeCalls /\ ~h.overwrote
    /\ \A id \in EdgeIds : edges.items[id].status = "allocated"
    /\ \E r \in Relations, p \in Pairs : Len(h.ins[r][p]) = 2 /\ p[1] # p[2]
    /\ ~h.last.multi_edge
    /\ e.srcNodeID # e.destNodeID

\* the places (relation, pair, position) of the relation matrices at which
\* a reader finds edge id
Occurrences(id) ==
    {x \in Relations \X Pairs \X (1..Cardinality(EdgeIds) + 1) :
        /\ x[3] <= Len(DecodeCell(rel_m[x[1]], heap, x[2][1], x[2][2]))
        /\ DecodeCell(rel_m[x[1]], heap, x[2][1], x[2][2])[x[3]] = id}

\* no edge id occurs twice in one cell's sequence or in two relation cells
NoEdgeIdTwice == \A id \in EdgeIds : Cardinality(Occurrences(id)) <= 1

\* C13: set_edge never allocates an edge id that still occurs in some
\* relation cell (as after mark_edge_deleted(id) followed by set_edge with
\* the same id), so no edge id ever occurs twice in one cell's sequence or
\* in two different relation cells.
C13_NoReuseWhileReferenced ==
    /\ [][(h'.last.op = "set_edge" /\ ~aborted')
              => \A r \in Relations : ~EdgeInRelation(r, h'.last.id)]_vars
    /\ []NoEdgeIdTwice

\* every relation cell equals its mirror in the transpose
CellsMirrored ==
    \A r \in Relations, p \in Pairs :
        /\ Present(rel_m[r], p[1], p[2]) <=> Present(rel_tm[r], p[2], p[1])
        /\ Present(rel_m[r], p[1], p[2])
               => rel_m[r][p] = rel_tm[r][<<p[2], p[1]>>]

\* C14: a set_edge call during which a matrix primitive reports a failure
\* (a set-element step of either path, or a presence check that reports
\* neither present nor absent) aborts; it never runs to completion, so no
\* live state has a forward cell that differs from its transpose mirror.
C14_PrimitiveFailureIsFatal ==
    /\ (h.last.op = "set_edge" /\ h.last.failed # {}) => aborted
    /\ ~aborted => CellsMirrored

\* every label matrix has entries on its diagonal only, all true, and the
\* bit of node id is set in the matrix of label l iff a completed set_node
\* call for id listed l
LabelMatricesDiagonal ==
    \A l \in Labels :
        /\ \A p \in DOMAIN labels[l] : p[1] = p[2] /\ labels[l][p] = TRUE
        /\ \A id \in NodeIds : IsSet(labels[l], id, id) <=> l \in h.allL[id]

\* a completed set_node(id, L) sets label_l[id,id] for every l of L and
\* leaves every other cell of every label matrix as it was
SetNodeWritesItsLabels ==
    (h'.last.op = "set_node" /\ ~aborted')
        => \A l \in Labels, p \in Pairs :
               IF l \in LabelSet(h'.last.labels)
                      /\ p = <<h'.last.id, h'.last.id>>
               THEN IsSet(labels'[l], p[1], p[2])
               ELSE /\ Present(labels'[l], p[1], p[2])
                           <=> Present(labels[l], p[1], p[2])
                    /\ Present(labels[l], p[1], p[2])
                           => labels'[l][p] = labels[l][p]

\* C15: in every reachable state each label matrix has entries only on its
\* diagonal, and label_l[id,id] is true iff some set_node call for id listed
\* l; set_node(id, L) sets exactly the cells label_l[id,id] for l in L, a
\* repeated label counting once, and changes no other cell of any label
\* matrix.
C15_LabelMatrixInvariant ==
    /\ []LabelMatricesDiagonal
    /\ [][SetNodeWritesItsLabels]_vars

\* set_node has just listed one label twice for a node, after another node
\* got the other label
C15_Witness ==
    /\ h.last.op = "set_node" /\ ~aborted
    /\ Len(h.last.labels) = 2 /\ h.last.labels[1] = h.last.labels[2]
    /\ IsSet(labels[h.last.labels[1]], h.last.id, h.last.id)
    /\ \E id \in NodeIds \ {h.last.id}, l \in Labels \ {h.last.labels[1]} :
           /\ IsSet(labels[l], id, id)
           /\ ~Present(labels[l], h.last.id, h.last.id)

\* the node-label matrix that holds exactly the labels the completed
\* set_node calls listed for each node
ListedLabels ==
    [p \in {q \in NodeIds \X Labels : q[2] \in h.allL[q[1]]} |-> TRUE]

\* C16: only project_node_labels() changes the combined node-label matrix
\* (set_node, set_edge and both deletions leave it as it is, so labels a
\* later set_node writes show in it only after the next projection), set_edge
\* changes no label matrix, and what a projection leaves is fixed by the
\* set_node calls made so far, wherever the set_edge calls fall.
C16_NodeLabelsFrame ==
    [][/\ h'.last.op # "project_node_labels" => node_labels' = node_labels
       /\ h'.last.op = "set_edge" => labels' = labels
       /\ h'.last.op = "project_node_labels" => node_labels' = ListedLabels]_vars

\* a node labelled after the projection is missing from the node-label
\* matrix, which shows another node's label
C16_Witness ==
    /\ h.last.op = "set_node" /\ ~aborted
    /\ \E l \in Labels :
           /\ IsSet(labels[l], h.last.id, h.last.id)
           /\ ~NodeLabelBit(h.last.id, l)
    /\ \E id \in NodeIds \ {h.last.id}, l \in Labels : NodeLabelBit(id, l)

\* the number of edge ids a reader enumerates from matrix m: the lengths of
\* the decoded sequences of its cells, 1 for a single-tagged cell
EnumerableEdges(m) ==
    SumOver([p \in DOMAIN m |-> Len(DecodeCell(m, heap, p[1], p[2]))],
            DOMAIN m)

\* C17: in every state reached by set_edge calls that all take the multi
\* path, with distinct ids, the edge counter of every relation type equals
\* the number of edge ids enumerable from its relation matrix, and the
\* transpose matrix gives the same number.
C17_CounterMatchesMatrix ==
    \A r \in Relations :
        /\ stats[r] = EnumerableEdges(rel_m[r])
        /\ stats[r] = EnumerableEdges(rel_tm[r])

\* one relation type holds three edges, two in a multi-tagged cell and one
\* in a single-tagged cell
C17_Witness ==
    \E r \in Relations, p \in Pairs, q \in Pairs :
        /\ stats[r] = 3
        /\ MultiTagged(rel_m[r], p[1], p[2])
        /\ Present(rel_m[r], q[1], q[2])
        /\ SINGLE_EDGE(rel_m[r][q])

\* every present relation cell has its adjacency bit, and an adjacency bit
\* is set only for a pair some completed set_edge call connected
AdjacencyCoversRelations ==
    \A p \in Pairs :
        /\ \A r \in Relations :
               Present(rel_m[r], p[1], p[2]) => IsSet(adj_m, p[1], p[2])
        /\ IsSet(adj_m, p[1], p[2])
               => \E r \in Relations : h.ins[r][p] # <<>>
        /\ Present(adj_m, p[1], p[2]) => IsSet(adj_m, p[1], p[2])

\* no step clears an adjacency bit, and a completed set_edge call from src
\* to dest sets the bit of (src, dest) and of (dest, src) in the transpose,
\* and no other, through either path
AdjacencyWrittenOnly ==
    /\ \A p \in Pairs : IsSet(adj_m, p[1], p[2]) => IsSet(adj_m', p[1], p[2])
    /\ IF h'.last.op = "set_edge" /\ ~aborted'
       THEN /\ adj_m' = GrB_Matrix_setElement(adj_m, TRUE,
                                              h'.last.src, h'.last.dest)
            /\ adj_tm' = GrB_Matrix_setElement(adj_tm, TRUE,
                                               h'.last.dest, h'.last.src)
       ELSE UNCHANGED <<adj_m, adj_tm>>

\* C18: in every reachable state a present relation cell R[s,d] has
\* adjacency[s,d] true, and adjacency[s,d] is true only if some set_edge
\* call from s to d has been made; no operation clears an adjacency bit, and
\* the single and the multi path write the bits the same way.
C18_AdjacencyCovers ==
    /\ []AdjacencyCoversRelations
    /\ [][AdjacencyWrittenOnly]_vars

\* two pairs are connected, one through each path, and the pair in the
\* other direction is not
C18_Witness ==
    \E p \in Pairs, q \in Pairs, r \in Relations :
        /\ p # q /\ p[1] # p[2]
        /\ IsSet(adj_m, p[1], p[2]) /\ IsSet(adj_m, q[1], q[2])
        /\ ~Present(adj_m, p[2], p[1])
        /\ MultiTagged(rel_m[r], q[1], q[2])
        /\ h.last.op = "set_edge" /\ ~h.last.multi_edge /\ ~aborted
        /\ <<h.last.src, h.last.dest>> = p

====
